---- MODULE Spec2Model ----
(***************************************************************************)
(* Model of the defect-record extraction engine of src/HSE_pics.py:        *)
(* PDFDefectExtractor (extract_defects_from_pdf, _analyze_text_blocks,     *)
(* _find_matching_image, _extract_text_from_block, _sanitize_filename) and *)
(* the batch loop and the ZIP packaging of main.                           *)
(*                                                                         *)
(* A Python str is a sequence of one-character strings.  Indices into      *)
(* Python lists (block indices, image indices, page numbers) keep their    *)
(* 0-based values; At(l, k) reads element k of a 0-based list.             *)
(***************************************************************************)
EXTENDS Integers, Sequences, FiniteSets, TLC

VARIABLES uploaded_files, i, pc, page_num, image_blocks, block_idx,
          extracted_items, all_defects, analysed, errors, warnings, emitted,
          file_counter, zip_file, raw_name, clean_names

vars == <<uploaded_files, i, pc, page_num, image_blocks, block_idx,
          extracted_items, all_defects, analysed, errors, warnings, emitted,
          file_counter, zip_file, raw_name, clean_names>>

\* the state of the ZIP packaging of main
packaging == <<file_counter, zip_file>>

\* the state of a run of _sanitize_filename on its own
sanitizer == <<raw_name, clean_names>>

----------------------------------------------------------------------------
(* Python built-ins on str and list used by the source.                    *)

At(l, k) == l[k + 1]

SetMin(S) == CHOOSE x \in S : \A y \in S : x <= y

SetMax(S) == CHOOSE x \in S : \A y \in S : x >= y

\* str.strip() / str.isspace() / regex \s over the characters of the model
WHITESPACE == {" ", "\t", "\n", "\r"}

\* regex \d
DIGITS == {"0", "1", "2", "3", "4", "5", "6", "7", "8", "9"}

UPPERCASE == <<"A", "B", "C", "D", "E", "F", "G", "H", "I", "J", "K", "L", "M",
               "N", "O", "P", "Q", "R", "S", "T", "U", "V", "W", "X", "Y", "Z">>

LOWERCASE == <<"a", "b", "c", "d", "e", "f", "g", "h", "i", "j", "k", "l", "m",
               "n", "o", "p", "q", "r", "s", "t", "u", "v", "w", "x", "y", "z">>

lower_char(c) ==
    IF \E k \in DOMAIN UPPERCASE : UPPERCASE[k] = c
    THEN LOWERCASE[CHOOSE k \in DOMAIN UPPERCASE : UPPERCASE[k] = c]
    ELSE c

\* str.lower(), and the folding re.IGNORECASE applies
lower(s) == [k \in 1..Len(s) |-> lower_char(s[k])]

\* str.strip()
strip(s) ==
    LET keep == {k \in 1..Len(s) : s[k] \notin WHITESPACE}
    IN  IF keep = {} THEN <<>> ELSE SubSeq(s, SetMin(keep), SetMax(keep))

\* sub in s
contains(s, sub) ==
    \E p \in 1..(Len(s) - Len(sub) + 1) : SubSeq(s, p, p + Len(sub) - 1) = sub

\* first position >= p of s whose character is not in the class (Len(s)+1 if none)
RunEnd(s, p, class) ==
    LET stops == {q \in p..Len(s) : s[q] \notin class}
    IN  IF stops = {} THEN Len(s) + 1 ELSE SetMin(stops)

----------------------------------------------------------------------------
(* PDFDefectExtractor._extract_text_from_block                              *)
(* A block, a line, a span are records; an absent key ("lines", "spans",   *)
(* "text") is an absent field.                                             *)

RECURSIVE SpanTexts(_)
SpanTexts(spans) ==
    IF spans = <<>> THEN <<>>
    ELSE (IF "text" \in DOMAIN Head(spans) THEN Head(spans).text ELSE <<>>)
         \o <<" ">> \o SpanTexts(Tail(spans))

RECURSIVE LineTexts(_)
LineTexts(lines) ==
    IF lines = <<>> THEN <<>>
    ELSE (IF "spans" \in DOMAIN Head(lines) THEN SpanTexts(Head(lines).spans) ELSE <<>>)
         \o LineTexts(Tail(lines))

_extract_text_from_block(block) ==
    strip(IF "lines" \in DOMAIN block THEN LineTexts(block.lines) ELSE <<>>)

----------------------------------------------------------------------------
(* PDFDefectExtractor._sanitize_filename                                    *)

illegal_chars == <<"<", ">", ":", "\"", "/", "\\", "|", "?", "*", "\n", "\r", "\t">>

\* the length limit of a cleaned name
MaxNameLen == 100

\* for char in illegal_chars: filename = filename.replace(char, '_'); the
\* replacement '_' is not itself in illegal_chars, so the passes amount to one
ReplaceAll(filename, chars) ==
    [k \in 1..Len(filename) |->
        IF \E j \in DOMAIN chars : chars[j] = filename[k] THEN "_" ELSE filename[k]]

\* re.sub(r'_{2,}', '_', filename): of a run of underscores the first is kept
CollapseUnderscores(filename) ==
    LET Pair(k)   == <<filename[k], IF k > 1 THEN filename[k - 1] ELSE "">>
        Kept(pair) == ~(pair[1] = "_" /\ pair[2] = "_")
        kept       == SelectSeq([k \in 1..Len(filename) |-> Pair(k)], Kept)
    IN  [k \in 1..Len(kept) |-> kept[k][1]]

_sanitize_filename(filename) ==
    IF filename = <<>> THEN <<"u", "n", "k", "n", "o", "w", "n">>
    ELSE LET replaced  == ReplaceAll(filename, illegal_chars)
             collapsed == CollapseUnderscores(replaced)
             limited   == IF Len(collapsed) > MaxNameLen
                          THEN SubSeq(collapsed, 1, MaxNameLen) ELSE collapsed
         IN  strip(limited)

----------------------------------------------------------------------------
(* PDFDefectExtractor._analyze_text_blocks                                  *)

\* the number of text blocks the caption is read from
WindowSize == 6

s_defect_code == <<"d", "e", "f", "e", "c", "t", " ", "c", "o", "d", "e">>

s_defect == <<"d", "e", "f", "e", "c", "t">>

\* a variant of the while loop that also counts the text blocks without text
RECURSIVE ScanTextBlocks_CountBlank(_, _, _)
ScanTextBlocks_CountBlank(blocks, current_index, text_blocks) ==
    IF Len(text_blocks) < WindowSize /\ current_index < Len(blocks)
    THEN ScanTextBlocks_CountBlank(blocks, current_index + 1,
             IF At(blocks, current_index).type = 0
             THEN Append(text_blocks, _extract_text_from_block(At(blocks, current_index)))
             ELSE text_blocks)
    ELSE text_blocks

\* the while loop: text_blocks after the scan that starts at current_index
RECURSIVE ScanTextBlocks(_, _, _)
ScanTextBlocks(blocks, current_index, text_blocks) ==
    IF Len(text_blocks) < WindowSize /\ current_index < Len(blocks)
    THEN LET block == At(blocks, current_index)
             text  == IF block.type = 0 THEN _extract_text_from_block(block) ELSE <<>>
         IN  ScanTextBlocks(blocks, current_index + 1,
                 IF block.type = 0 /\ strip(text) # <<>>
                 THEN Append(text_blocks, text) ELSE text_blocks)
    ELSE text_blocks

\* "defect code" not in text.lower()
HasMarker(text) == contains(lower(text), s_defect_code)

\* re.search(r'defect code\s+(\d+)', text, re.IGNORECASE): the leftmost match
code_match(text) ==
    LET low == lower(text)
        n   == Len(text)
        MatchAt(p) ==
            /\ p + Len(s_defect_code) <= n
            /\ SubSeq(low, p, p + Len(s_defect_code) - 1) = s_defect_code
            /\ text[p + Len(s_defect_code)] \in WHITESPACE
            /\ LET q == RunEnd(text, p + Len(s_defect_code), WHITESPACE)
               IN  q <= n /\ text[q] \in DIGITS
        starts == {p \in 1..n : MatchAt(p)}
    IN  IF starts = {} THEN [matched |-> FALSE, group1 |-> <<>>]
        ELSE LET q == RunEnd(text, SetMin(starts) + Len(s_defect_code), WHITESPACE)
             IN  [matched |-> TRUE,
                  group1  |-> SubSeq(text, q, RunEnd(text, q, DIGITS) - 1)]

\* a variant that cuts at the last match, as the greedy r'(.+)\s+defect' does
split_defect_last(text) ==
    LET low == lower(text)
        n   == Len(text)
        MatchAt(p) ==
            /\ text[p] \in WHITESPACE
            /\ LET q == RunEnd(text, p, WHITESPACE)
               IN  q + Len(s_defect) - 1 <= n
                   /\ SubSeq(low, q, q + Len(s_defect) - 1) = s_defect
        starts == {p \in 2..n : MatchAt(p) /\ text[p - 1] \notin WHITESPACE}
    IN  IF starts = {} THEN text ELSE SubSeq(text, 1, SetMax(starts) - 1)

\* re.split(r'\s+defect', text, flags=re.IGNORECASE)[0]
split_defect_first(text) ==
    LET low == lower(text)
        n   == Len(text)
        MatchAt(p) ==
            /\ text[p] \in WHITESPACE
            /\ LET q == RunEnd(text, p, WHITESPACE)
               IN  q + Len(s_defect) - 1 <= n
                   /\ SubSeq(low, q, q + Len(s_defect) - 1) = s_defect
        starts == {p \in 1..n : MatchAt(p)}
    IN  IF starts = {} THEN text ELSE SubSeq(text, 1, SetMin(starts) - 1)

\* the value None
NoResult == [ok |-> FALSE, defect_code |-> <<>>, reason |-> <<>>]

\* a variant that reads the marker and the code from text_blocks[3]
CodeBlock_Fourth(text_blocks) == At(text_blocks, 3)

\* text_blocks[4]: the block the marker is looked for and the code is read from
CodeBlock(text_blocks) == At(text_blocks, 4)

\* text_blocks[5]: the block the reason is read from
ReasonBlock(text_blocks) == At(text_blocks, 5)

\* a lenient variant: a text without "defect" gets the reason "Unknown Defect"
ExtractReason_Lenient(text) ==
    IF contains(lower(text), s_defect)
    THEN IF strip(split_defect_first(text)) # <<>>
         THEN [ok |-> TRUE, reason |-> strip(split_defect_first(text))]
         ELSE [ok |-> FALSE, reason |-> <<>>]
    ELSE [ok |-> TRUE,
          reason |-> <<"U", "n", "k", "n", "o", "w", "n", " ", "D", "e", "f", "e", "c", "t">>]

\* lines 127-135: the reason read from a text, or None
ExtractReason(text) ==
    IF contains(lower(text), s_defect)
    THEN IF strip(split_defect_first(text)) # <<>>
         THEN [ok |-> TRUE, reason |-> strip(split_defect_first(text))]
         ELSE [ok |-> FALSE, reason |-> <<>>]
    ELSE [ok |-> FALSE, reason |-> <<>>]

_analyze_text_blocks(blocks, start_index) ==
    LET text_blocks == ScanTextBlocks(blocks, start_index + 1, <<>>)
    IN  IF Len(text_blocks) < WindowSize THEN NoResult
        ELSE IF ~HasMarker(CodeBlock(text_blocks)) THEN NoResult
        ELSE LET m == code_match(CodeBlock(text_blocks))
                 r == ExtractReason(ReasonBlock(text_blocks))
             IN  IF ~m.matched THEN NoResult
                 ELSE IF r.ok
                 THEN [ok |-> TRUE, defect_code |-> m.group1, reason |-> r.reason]
                 ELSE NoResult

----------------------------------------------------------------------------
(* PDFDefectExtractor._find_matching_image                                  *)
(* Centres are kept doubled and distances squared (4 d^2 for the source's  *)
(* d): the source only compares distances with <, and x -> 4 x^2 is        *)
(* strictly increasing on d >= 0.                                          *)

Distance4Sq(bbox, img_rect) ==
    LET bx == bbox[1] + bbox[3]
        by == bbox[2] + bbox[4]
        ix == img_rect[1] + img_rect[3]
        iy == img_rect[2] + img_rect[4]
    IN  (ix - bx) * (ix - bx) + (iy - by) * (iy - by)

\* a variant of the for loop that compares with <=
RECURSIVE MatchLoop_LastTie(_, _, _, _)
MatchLoop_LastTie(bbox, image_list, img_idx, best) ==
    IF img_idx >= Len(image_list) THEN best
    ELSE LET img_rects == At(image_list, img_idx).rects
         IN  IF img_rects # <<>>
                /\ (~best.found \/ Distance4Sq(bbox, At(img_rects, 0)) <= best.distance)
             THEN MatchLoop_LastTie(bbox, image_list, img_idx + 1,
                      [found |-> TRUE, idx |-> img_idx,
                       distance |-> Distance4Sq(bbox, At(img_rects, 0))])
             ELSE MatchLoop_LastTie(bbox, image_list, img_idx + 1, best)

\* the for loop from img_idx on; best.found = FALSE is best_match_idx None,
\* min_distance inf
RECURSIVE MatchLoop(_, _, _, _)
MatchLoop(bbox, image_list, img_idx, best) ==
    IF img_idx >= Len(image_list) THEN best
    ELSE LET img_rects == At(image_list, img_idx).rects
         IN  IF img_rects # <<>>
                /\ (~best.found \/ Distance4Sq(bbox, At(img_rects, 0)) < best.distance)
             THEN MatchLoop(bbox, image_list, img_idx + 1,
                      [found |-> TRUE, idx |-> img_idx,
                       distance |-> Distance4Sq(bbox, At(img_rects, 0))])
             ELSE MatchLoop(bbox, image_list, img_idx + 1, best)

_find_matching_image(bbox, image_list) ==
    LET best == MatchLoop(bbox, image_list, 0, [found |-> FALSE, idx |-> 0, distance |-> 0])
    IN  [found |-> best.found, idx |-> best.idx]

----------------------------------------------------------------------------
(* PDFDefectExtractor.extract_defects_from_pdf: the page set-up             *)

\* the loop that collects the image blocks of a page (block type 1)
RECURSIVE CollectImageBlocks(_, _)
CollectImageBlocks(blocks, k) ==
    IF k >= Len(blocks) THEN <<>>
    ELSE (IF At(blocks, k).type = 1
          THEN <<[index |-> k, bbox |-> At(blocks, k).bbox,
                  y_position |-> At(blocks, k).bbox[2]]>>
          ELSE <<>>)
         \o CollectImageBlocks(blocks, k + 1)

\* list.sort(key=y_position) is stable: an element goes behind the elements
\* already placed whose key is not larger
InsertByY(sorted, b) ==
    LET pos == Cardinality({j \in 1..Len(sorted) : sorted[j].y_position <= b.y_position})
    IN  SubSeq(sorted, 1, pos) \o <<b>> \o SubSeq(sorted, pos + 1, Len(sorted))

\* a variant that leaves the image blocks in stream order
SortByY_StreamOrder(list) == list

RECURSIVE SortByY(_)
SortByY(list) ==
    IF list = <<>> THEN <<>>
    ELSE InsertByY(SortByY(SubSeq(list, 1, Len(list) - 1)), list[Len(list)])

\* doc.extract_image(xref)
ExtractImage(doc, xref) == [image |-> <<"image", xref>>, ext |-> <<"p", "n", "g">>]

\* a variant that keeps the sanitized reason "_" as the key
FallbackName_Keep(defect_code) == <<"_">>

\* f"defect_{defect_code}"
FallbackName(defect_code) == <<"d", "e", "f", "e", "c", "t", "_">> \o defect_code

\* lines 72-87: the record built for a candidate
MakeItem(filename, page_index, result, base_image) ==
    LET reason       == result.reason
        clean_reason == _sanitize_filename(reason)
    IN  [pdf_name     |-> filename,
         page         |-> page_index + 1,
         defect_code  |-> result.defect_code,
         reason       |-> reason,
         clean_reason |-> IF clean_reason = <<>> \/ clean_reason = <<"_">>
                          THEN FallbackName(result.defect_code) ELSE clean_reason,
         image_data   |-> base_image.image,
         image_ext    |-> base_image.ext]

----------------------------------------------------------------------------
(* The documents handed to main: what fitz returns for them.                *)
(* A document is [name, opens, pages, broken]: opens = FALSE when fitz.open *)
(* raises, broken the xrefs for which extract_image raises.  A page is     *)
(* [readable, blocks, image_list]: readable = FALSE when get_text raises;  *)
(* an entry of image_list is [xref, rects], rects being what               *)
(* get_image_rects(xref) returns.                                          *)

MaxHead == 3

MaxTail == 7

MaxCoord == 1

MaxImages == 2

MaxDocs == 2

MaxReasonLen == 3

SeqsUpTo(S, n) == UNION {[1..k -> S] : k \in 0..n}

Rep(c, n) == [k \in 1..n |-> c]

RECURSIVE Flatten(_)
Flatten(ss) == IF ss = <<>> THEN <<>> ELSE Head(ss) \o Flatten(Tail(ss))

TextBbox == <<0, 0, 1, 1>>

\* a text block of one line and one span
Txt(text) == [type |-> 0, bbox |-> TextBbox, lines |-> <<[spans |-> <<[text |-> text]>>]>>]

\* a text block whose text is spread over lines and spans
TxtSpans(lines) ==
    [type |-> 0, bbox |-> TextBbox,
     lines |-> [k \in 1..Len(lines) |->
                   [spans |-> [j \in 1..Len(lines[k]) |-> [text |-> lines[k][j]]]]]]

\* text blocks without text: blank spans, no "lines", a line without "spans",
\* a span without "text"
BlankTxt == Txt(<<" ">>)

NoLinesTxt == [type |-> 0, bbox |-> TextBbox]

NoSpansTxt == [type |-> 0, bbox |-> TextBbox, lines |-> <<[bbox |-> TextBbox]>>]

NoTextTxt == [type |-> 0, bbox |-> TextBbox, lines |-> <<[spans |-> <<[size |-> 1]>>]>>]

Img(bbox) == [type |-> 1, bbox |-> bbox]

\* an image block of width and height 2 with its top-left corner at (x, y)
ImgAt(x, y) == Img(<<x, y, x + 2, y + 2>>)

Rendered(xref, rects) == [xref |-> xref, rects |-> rects]

OneImage == <<Rendered(10, <<(<<0, 0, 2, 2>>)>>)>>

Page(blocks, image_list) == [readable |-> TRUE, blocks |-> blocks, image_list |-> image_list]

UnreadablePage == [readable |-> FALSE, blocks |-> <<>>, image_list |-> <<>>]

\* the name of an uploaded file
PdfName(stem) == stem \o <<".", "p", "d", "f">>

Doc(name, pages) == [name |-> name, opens |-> TRUE, pages |-> pages, broken |-> {}]

t_filler == <<"n">>

\* a text that passes as the fifth and as the sixth block of a caption
t_both == <<"x", " ", "d", "e", "f", "e", "c", "t", " ", "c", "o", "d", "e", " ", "7">>

t_w4 == <<"D", "e", "f", "e", "c", "t", " ", "C", "o", "d", "e", " ", "1", "0", "7">>

t_w5 == <<"L", "o", "o", "s", "e", " ", "B", "o", "l", "t", " ", "D", "e", "f", "e", "c", "t", " ", "F", "o", "u", "n", "d">>

t_w5b == <<"S", "u", "r", "f", "a", "c", "e", " ", "S", "c", "r", "a", "t", "c", "h", " ", "d", "e", "f", "e", "c", "t", " ", "n", "o", "t", "e", "d", " ", "o", "n", " ", "p", "a", "n", "e", "l">>

GoodCaption == <<Txt(t_filler), Txt(t_filler), Txt(t_filler), Txt(t_filler), Txt(t_w4), Txt(t_w5)>>

(* Layouts: every head of at most MaxHead blocks (images at two heights,   *)
(* texts, blank texts) followed by at most MaxTail texts.                  *)
LayoutBlock(kind) ==
    CASE kind = "I0" -> ImgAt(0, 0)
      [] kind = "I1" -> ImgAt(0, 1)
      [] kind = "T"  -> Txt(t_both)
      [] kind = "E"  -> BlankTxt

LayoutPage(head, tail) ==
    Page([k \in 1..Len(head) |-> LayoutBlock(head[k])] \o [k \in 1..tail |-> Txt(t_both)],
         OneImage)

LayoutKinds == {"I0", "I1", "T", "E"}

(* Captions: the fifth and sixth text block after a candidate, put         *)
(* together from pieces.                                                   *)
W4Pre == {<<>>,
         <<"x", " ">>}

W4Marker == {<<"d", "e", "f", "e", "c", "t", " ", "c", "o", "d", "e">>,
            <<"D", "e", "f", "e", "c", "t", " ", "C", "o", "d", "e">>,
            <<"d", "e", "f", "e", "c", "t", " ", " ", "c", "o", "d", "e">>,
            <<"I", "n", "s", "p", "e", "c", "t", "i", "o", "n", " ", "N", "o", "t", "e", "s">>}

W4Sep == {<<>>,
         <<" ">>,
         <<" ", "\t">>,
         <<":">>,
         <<":", " ">>,
         <<"=">>,
         <<" ", "=", " ">>}

W4Digits == {<<>>,
            <<"7">>,
            <<"1", "0", "7">>}

W4Suffix == {<<>>,
            <<" ", "4", "2">>,
            <<"x">>,
            <<" ", "d", "e", "f", "e", "c", "t", " ", "c", "o", "d", "e", " ", "5">>}

W4Set == {Flatten(<<a, b, c, d, e>>) :
            a \in W4Pre, b \in W4Marker, c \in W4Sep, d \in W4Digits, e \in W4Suffix}

W4Small == {<<"D", "e", "f", "e", "c", "t", " ", "C", "o", "d", "e", " ", "1", "0", "7">>,
           <<"D", "e", "f", "e", "c", "t", " ", "C", "o", "d", "e", ":", " ", "1", "0", "7">>}

W5Pre == {<<>>,
         <<"L", "o", "o", "s", "e", " ", "B", "o", "l", "t">>,
         <<"S", "u", "r", "f", "a", "c", "e", " ", "S", "c", "r", "a", "t", "c", "h">>,
         <<"/", "/", "/">>,
         <<" ", "a">>}

W5Ws == {<<>>,
        <<" ">>,
        <<" ", " ">>,
        <<"\t">>}

W5Kw == {<<"d", "e", "f", "e", "c", "t">>,
        <<"D", "e", "f", "e", "c", "t">>,
        <<"D", "E", "F", "E", "C", "T">>,
        <<"d", "e", "f", "e">>}

W5Suffix == {<<>>,
            <<" ", "F", "o", "u", "n", "d">>,
            <<" ", "n", "o", "t", "e", "d", " ", "o", "n", " ", "p", "a", "n", "e", "l">>,
            <<"i", "v", "e">>,
            <<" ", "f", "o", "u", "n", "d", " ", "d", "e", "f", "e", "c", "t", " ", "a", "g", "a", "i", "n">>}

W5Set == {Flatten(<<a, b, c, d>>) : a \in W5Pre, b \in W5Ws, c \in W5Kw, d \in W5Suffix}

W5Small == {<<"L", "o", "o", "s", "e", " ", "B", "o", "l", "t", " ", "D", "e", "f", "e", "c", "t", " ", "F", "o", "u", "n", "d">>,
           <<"I", "n", "s", "p", "e", "c", "t", "i", "o", "n", " ", "d", "o", "n", "e">>,
           <<" ", "d", "e", "f", "e", "c", "t">>}

CaptionPage(w3, w4, w5) ==
    Page(<<ImgAt(0, 0), ImgAt(0, 1), Txt(t_filler), Txt(t_filler), Txt(t_filler),
           Txt(w3), Txt(w4), Txt(w5)>>, OneImage)

\* the caption "Defect Code: 107", "Loose Bolt Defect Found"
ExamplePage ==
    CaptionPage(t_filler,
                <<"D", "e", "f", "e", "c", "t", " ", "C", "o", "d", "e", ":", " ", "1", "0", "7">>,
                t_w5)

\* a caption whose blocks are spread over lines and spans, among text blocks
\* without text
SpansPage ==
    Page(<<ImgAt(0, 0), ImgAt(0, 1), NoLinesTxt, Txt(t_filler), NoSpansTxt,
           Txt(t_filler), Txt(t_filler), NoTextTxt, Txt(t_filler),
           TxtSpans(<<(<<(<<"D", "e", "f", "e", "c", "t">>), (<<"c", "o", "d", "e">>)>>),
                      (<<(<<"1", "0", "7">>)>>)>>),
           Txt(t_w5b)>>, OneImage)

(* Placements: a page with two candidates under the skipped first image,   *)
(* and at most MaxImages rendered images placed on a grid, some without a  *)
(* placement rectangle.                                                    *)
RectSet == {<<>>} \cup {<<(<<x, y, x + 2, y + 2>>)>> : x \in 0..MaxCoord, y \in 0..MaxCoord}

ImageLists ==
    {[k \in 1..Len(rs) |-> Rendered(10 + k, rs[k])] : rs \in SeqsUpTo(RectSet, MaxImages)}

PlacementPage(c, image_list) ==
    Page(<<ImgAt(0, 0), ImgAt(c, 1), ImgAt(0, 2)>> \o GoodCaption, image_list)

\* a candidate centred at (100, 200) with images centred at (102, 198) and
\* (500, 500), and the same with a second rectangle for the far image
FarNearPages ==
    {Page(<<ImgAt(0, 0), Img(<<90, 190, 110, 210>>)>> \o GoodCaption,
          <<Rendered(11, <<(<<92, 188, 112, 208>>)>>),
            Rendered(12, <<(<<490, 490, 510, 510>>)>>)>>),
     Page(<<ImgAt(0, 0), Img(<<90, 190, 110, 210>>)>> \o GoodCaption,
          <<Rendered(11, <<(<<490, 490, 510, 510>>), (<<92, 188, 112, 208>>)>>),
            Rendered(12, <<(<<92, 188, 112, 208>>)>>)>>)}

(* Reasons: every text of at most MaxReasonLen characters over a small     *)
(* alphabet, alone and behind a run that reaches the length limit, and     *)
(* codes of up to the limit's length.                                      *)
ReasonTails == SeqsUpTo({"a", "_", "/", " "}, MaxReasonLen) \ {<<>>}

ReasonSet == ReasonTails \cup {Rep("a", MaxNameLen - 2) \o r : r \in ReasonTails}

ReasonPage(code, reason) ==
    CaptionPage(t_filler, s_defect_code \o <<" ">> \o code, reason \o <<" ">> \o s_defect)

LongCodes == {Rep("9", n) : n \in {MaxNameLen - 8, MaxNameLen - 7, MaxNameLen - 6}}

IllegalReasons == {<<"/">>, <<"/", ":", "/">>, <<"_">>}

(* Batches: at most MaxDocs documents, among them one that does not open,  *)
(* one with an unreadable page, one with an image that cannot be extracted *)
TwoCandidates(w5) ==
    Page(<<ImgAt(0, 0), ImgAt(0, 1), ImgAt(0, 2), Txt(t_filler), Txt(t_filler),
           Txt(t_filler), Txt(t_filler), Txt(t_w4), Txt(w5)>>,
         <<Rendered(11, <<(<<0, 1, 2, 3>>)>>), Rendered(12, <<(<<0, 2, 2, 4>>)>>)>>)

DocSet ==
    {Doc(PdfName(<<"a">>), <<CaptionPage(t_filler, t_w4, t_w5)>>),
     [name |-> PdfName(<<"b">>), opens |-> FALSE, pages |-> <<>>, broken |-> {}],
     Doc(PdfName(<<"c">>), <<TwoCandidates(t_w5), CaptionPage(t_filler, t_w4, t_w5b)>>),
     Doc(PdfName(<<"d">>), <<Page(<<Txt(t_filler), ImgAt(0, 0)>>, OneImage)>>),
     Doc(PdfName(<<"e">>), <<CaptionPage(t_filler, t_w4, t_w5), UnreadablePage,
                    CaptionPage(t_filler, t_w4, t_w5b)>>),
     [name |-> PdfName(<<"a">>), opens |-> TRUE, pages |-> <<TwoCandidates(t_w5)>>, broken |-> {11}]}

(* Archives: a document of at most MaxPages pages with one record each,    *)
(* the reasons taken from a set with a reason that ends in "_2".           *)
MaxPages == 3

ArchiveReasons == {<<"a">>, <<"a", "_", "2">>}

ArchiveDoc(reasons) ==
    Doc(PdfName(<<"a">>), [k \in 1..Len(reasons) |-> ReasonPage(<<"7">>, reasons[k])])

\* three documents of which the second does not open
ThreeDocs ==
    <<Doc(PdfName(<<"a">>), <<CaptionPage(t_filler, t_w4, t_w5)>>),
      [name |-> PdfName(<<"b">>), opens |-> FALSE, pages |-> <<>>, broken |-> {}],
      Doc(PdfName(<<"c">>), <<TwoCandidates(t_w5), CaptionPage(t_filler, t_w4, t_w5b)>>)>>

\* a batch of one document of one page
OnePage(page) == <<Doc(PdfName(<<"a">>), <<page>>)>>

\* the batches main is started with: the families of pages above, and the
\* batches of documents
IsBatch(files) ==
    \/ files = OnePage(ExamplePage)
    \/ \E head \in SeqsUpTo(LayoutKinds, MaxHead), tail \in 0..MaxTail :
          files = OnePage(LayoutPage(head, tail))
    \/ \E w4 \in W4Set, w5 \in W5Small : files = OnePage(CaptionPage(t_filler, w4, w5))
    \/ \E w4 \in W4Small, w5 \in W5Set : files = OnePage(CaptionPage(t_filler, w4, w5))
    \/ \E w4 \in W4Set : files = OnePage(CaptionPage(t_both, w4, t_w5))
    \/ files = OnePage(SpansPage)
    \/ \E c \in 0..MaxCoord, image_list \in ImageLists :
          files = OnePage(PlacementPage(c, image_list))
    \/ \E page \in FarNearPages : files = OnePage(page)
    \/ \E reason \in ReasonSet : files = OnePage(ReasonPage(<<"7">>, reason))
    \/ \E code \in LongCodes, reason \in IllegalReasons :
          files = OnePage(ReasonPage(code, reason))
    \/ \E docs \in SeqsUpTo(DocSet, MaxDocs) : docs # <<>> /\ files = docs
    \/ files = ThreeDocs
    \/ \E reasons \in SeqsUpTo(ArchiveReasons, MaxPages) :
          reasons # <<>> /\ files = <<ArchiveDoc(reasons)>>

----------------------------------------------------------------------------
(* main (tab 1) and extract_defects_from_pdf as a state machine.           *)
(*   pc = "main"    at the head of the loop over uploaded_files, index i   *)
(*   pc = "pages"   at the head of the loop over the pages, page_num       *)
(*   pc = "blocks"  at the head of the loop over image_blocks, block_idx   *)
(*   pc = "return"  extract_defects_from_pdf returns extracted_items       *)
(*   pc = "done"    the batch is processed; the defects collected are     *)
(*                  written to the ZIP file one by one                     *)
(* analysed records, for the page being processed, each call of            *)
(* _analyze_text_blocks: the block index passed, its result, the matched   *)
(* image and whether an item was appended.  errors and warnings record the *)
(* st.error and st.warning calls; emitted records, for every item          *)
(* appended, the document, page and image block it was appended for.       *)

CurDoc == At(uploaded_files, i)

CurPage == At(CurDoc.pages, page_num)

NoMatch == [found |-> FALSE, idx |-> 0]

Init ==
    /\ IsBatch(uploaded_files)
    /\ i = 0
    /\ pc = "main"
    /\ page_num = 0
    /\ image_blocks = <<>>
    /\ block_idx = 0
    /\ extracted_items = <<>>
    /\ all_defects = <<>>
    /\ analysed = <<>>
    /\ errors = <<>>
    /\ warnings = <<>>
    /\ emitted = <<>>
    /\ file_counter = <<>>
    /\ zip_file = <<>>
    /\ raw_name = <<>>
    /\ clean_names = <<>>

\* main 570-577, extract_defects_from_pdf 31-35: the document opens
OpenDocument ==
    /\ pc = "main"
    /\ i < Len(uploaded_files)
    /\ CurDoc.opens
    /\ extracted_items' = <<>>
    /\ page_num' = 0
    /\ pc' = "pages"
    /\ UNCHANGED <<uploaded_files, i, image_blocks, block_idx, all_defects, analysed,
                   errors, warnings>>
    /\ UNCHANGED <<emitted, packaging, sanitizer>>

\* a variant in which the exception of fitz.open leaves main
OpenFails_Abort ==
    /\ pc = "main"
    /\ i < Len(uploaded_files)
    /\ ~CurDoc.opens
    /\ pc' = "done"
    /\ UNCHANGED <<uploaded_files, i, page_num, image_blocks, block_idx, extracted_items,
                   all_defects, analysed, errors, warnings, emitted, packaging, sanitizer>>

\* 33-35, 94-97: fitz.open raises; the error is reported and [] returned
OpenFails ==
    /\ pc = "main"
    /\ i < Len(uploaded_files)
    /\ ~CurDoc.opens
    /\ extracted_items' = <<>>
    /\ errors' = Append(errors, [i |-> i, name |-> CurDoc.name])
    /\ pc' = "return"
    /\ UNCHANGED <<uploaded_files, i, page_num, image_blocks, block_idx, all_defects,
                   analysed, warnings>>
    /\ UNCHANGED <<emitted, packaging, sanitizer>>

\* 37-53: the blocks of the page are read, its image blocks collected and sorted
LoadPage ==
    /\ pc = "pages"
    /\ page_num < Len(CurDoc.pages)
    /\ CurPage.readable
    /\ image_blocks' = SortByY(CollectImageBlocks(CurPage.blocks, 0))
    /\ block_idx' = 0
    /\ analysed' = <<>>
    /\ pc' = "blocks"
    /\ UNCHANGED <<uploaded_files, i, page_num, extracted_items, all_defects, errors,
                   warnings>>
    /\ UNCHANGED <<emitted, packaging, sanitizer>>

\* 38-40, 94-97: reading the page raises; the items collected so far are returned
PageFails ==
    /\ pc = "pages"
    /\ page_num < Len(CurDoc.pages)
    /\ ~CurPage.readable
    /\ errors' = Append(errors, [i |-> i, name |-> CurDoc.name])
    /\ pc' = "return"
    /\ UNCHANGED <<uploaded_files, i, page_num, image_blocks, block_idx, extracted_items,
                   all_defects, analysed, warnings>>
    /\ UNCHANGED <<emitted, packaging, sanitizer>>

\* 56-58: the first image block of the sorted list is skipped
SkipFirstImage ==
    /\ pc = "blocks"
    /\ block_idx < Len(image_blocks)
    /\ block_idx = 0
    /\ block_idx' = block_idx + 1
    /\ UNCHANGED <<uploaded_files, i, pc, page_num, image_blocks, extracted_items,
                   all_defects, analysed, errors, warnings>>
    /\ UNCHANGED <<emitted, packaging, sanitizer>>

\* a variant without the inner try: the exception of extract_image ends the
\* processing of the document
AfterCandidate_Propagate(raises) == IF raises THEN "return" ELSE "blocks"

\* 62, 67, 89-91: after a candidate, with or without an item, and also when
\* extract_image raised (the warning, then continue), the loop goes on
AfterCandidate(raises) == "blocks"

\* 60-91: one further image block is analysed, matched and extracted (block_info,
\* result and matched_image_idx are bound once, as the source assigns them once)
ProcessImageBlock ==
    /\ pc = "blocks"
    /\ block_idx < Len(image_blocks)
    /\ block_idx # 0
    /\ \E block_info \in {At(image_blocks, block_idx)} :
       \E result \in {_analyze_text_blocks(CurPage.blocks, block_info.index)} :
       \E matched \in {IF result.ok
                       THEN _find_matching_image(block_info.bbox, CurPage.image_list)
                       ELSE NoMatch} :
       LET xref    == At(CurPage.image_list, matched.idx).xref
           raises  == result.ok /\ matched.found /\ xref \in CurDoc.broken
           appends == result.ok /\ matched.found /\ ~raises
       IN  /\ extracted_items' =
                 IF appends
                 THEN Append(extracted_items,
                             MakeItem(CurDoc.name, page_num, result, ExtractImage(CurDoc, xref)))
                 ELSE extracted_items
           /\ warnings' = IF raises THEN Append(warnings, [i |-> i, page_num |-> page_num])
                          ELSE warnings
           /\ analysed' = Append(analysed, [index |-> block_info.index, result |-> result,
                                            matched |-> matched, appended |-> appends])
           /\ emitted' = IF appends THEN Append(emitted, <<i, page_num, block_idx>>)
                         ELSE emitted
           /\ pc' = AfterCandidate(raises)
    /\ block_idx' = block_idx + 1
    /\ UNCHANGED <<uploaded_files, i, page_num, image_blocks, all_defects, errors>>
    /\ UNCHANGED <<packaging, sanitizer>>

\* 56, 37: the image blocks of the page are exhausted
EndPage ==
    /\ pc = "blocks"
    /\ block_idx = Len(image_blocks)
    /\ page_num' = page_num + 1
    /\ pc' = "pages"
    /\ UNCHANGED <<uploaded_files, i, image_blocks, block_idx, extracted_items,
                   all_defects, analysed, errors, warnings>>
    /\ UNCHANGED <<emitted, packaging, sanitizer>>

\* 37, 93: the pages are exhausted
CloseDocument ==
    /\ pc = "pages"
    /\ page_num = Len(CurDoc.pages)
    /\ pc' = "return"
    /\ UNCHANGED <<uploaded_files, i, page_num, image_blocks, block_idx, extracted_items,
                   all_defects, analysed, errors, warnings>>
    /\ UNCHANGED <<emitted, packaging, sanitizer>>

\* defect['pdf_file'] = uploaded_file.name
WithPdfFile(defect, name) ==
    [f \in DOMAIN defect \cup {"pdf_file"} |-> IF f = "pdf_file" THEN name ELSE defect[f]]

\* a variant that puts the defects of a document in front of those collected
AppendDefects_Front(defects_so_far, defects, name) ==
    [k \in 1..Len(defects) |-> WithPdfFile(defects[k], name)] \o defects_so_far

\* main 578-580: every defect of the document, in its order, is appended
AppendDefects(defects_so_far, defects, name) ==
    defects_so_far \o [k \in 1..Len(defects) |-> WithPdfFile(defects[k], name)]

\* 97, main 577-580: the items of the document are appended to all_defects
CollectDefects ==
    /\ pc = "return"
    /\ all_defects' = AppendDefects(all_defects, extracted_items, CurDoc.name)
    /\ i' = i + 1
    /\ pc' = "main"
    /\ UNCHANGED <<uploaded_files, page_num, image_blocks, block_idx, extracted_items,
                   analysed, errors, warnings>>
    /\ UNCHANGED <<emitted, packaging, sanitizer>>

\* main 570, 582-583: the uploaded files are exhausted
Finish ==
    /\ pc = "main"
    /\ i = Len(uploaded_files)
    /\ pc' = "done"
    /\ UNCHANGED <<uploaded_files, i, page_num, image_blocks, block_idx, extracted_items,
                   all_defects, analysed, errors, warnings>>
    /\ UNCHANGED <<emitted, packaging, sanitizer>>

\* Path(name).stem: the final component of the path without its last suffix
\* (a dot that is neither its first nor its last character starts a suffix)
Stem(name) ==
    LET slashes == {k \in DOMAIN name : name[k] = "/"}
        final   == IF slashes = {} THEN name
                   ELSE SubSeq(name, SetMax(slashes) + 1, Len(name))
        dots    == {k \in DOMAIN final : final[k] = "." /\ 1 < k /\ k < Len(final)}
    IN  IF dots = {} THEN final ELSE SubSeq(final, 1, SetMax(dots) - 1)

\* str(count) of a positive int
RECURSIVE Str(_)
Str(count) ==
    LET digit == <<"0", "1", "2", "3", "4", "5", "6", "7", "8", "9">>[(count % 10) + 1]
    IN  IF count < 10 THEN <<digit>> ELSE Str(count \div 10) \o <<digit>>

\* 631-634: the file name of the count-th defect of a (pdf_name, reason) pair
ZipFilename(reason, count, image_ext) ==
    IF count = 1 THEN reason \o <<".">> \o image_ext
    ELSE reason \o <<"_">> \o Str(count) \o <<".">> \o image_ext

\* main 623-640: the next defect of all_defects is written to the ZIP file
PackageDefect ==
    /\ pc = "done"
    /\ Len(zip_file) < Len(all_defects)
    /\ LET defect   == all_defects[Len(zip_file) + 1]
           pdf_name == Stem(defect.pdf_name)
           reason   == defect.clean_reason
           key      == <<pdf_name, reason>>
           count    == IF key \in DOMAIN file_counter THEN file_counter[key] + 1 ELSE 1
           filename == ZipFilename(reason, count, defect.image_ext)
           zip_path == pdf_name \o <<"/">> \o filename
       IN  /\ file_counter' = [k \in DOMAIN file_counter \cup {key} |->
                                  IF k = key THEN count ELSE file_counter[k]]
           /\ zip_file' = Append(zip_file, [zip_path |-> zip_path, data |-> defect.image_data])
    /\ UNCHANGED <<uploaded_files, i, pc, page_num, image_blocks, block_idx, extracted_items,
                   all_defects, analysed, errors, warnings, emitted, sanitizer>>

Next ==
    \/ OpenDocument
    \/ OpenFails
    \/ LoadPage
    \/ PageFails
    \/ SkipFirstImage
    \/ ProcessImageBlock
    \/ EndPage
    \/ CloseDocument
    \/ CollectDefects
    \/ Finish
    \/ PackageDefect

Spec == Init /\ [][Next]_vars

----------------------------------------------------------------------------
(* _sanitize_filename on its own: the function applied to a string, and to *)
(* its own result.  raw_name is the string, clean_names the results of the *)
(* calls made so far.                                                      *)

MaxCalls == 2

MaxNameTail == 3

NameChars == {"a", "_", "/", " ", "\t"}

\* every string of at most MaxNameTail characters, alone and behind a run
\* that reaches the length limit
NameSet ==
    SeqsUpTo(NameChars, MaxNameTail)
        \cup {Rep("a", MaxNameLen - 2) \o r : r \in SeqsUpTo(NameChars, MaxNameTail)}

SanitizeInit ==
    /\ raw_name \in NameSet
    /\ clean_names = <<>>
    /\ uploaded_files = <<>>
    /\ i = 0
    /\ pc = "sanitize"
    /\ page_num = 0
    /\ image_blocks = <<>>
    /\ block_idx = 0
    /\ extracted_items = <<>>
    /\ all_defects = <<>>
    /\ analysed = <<>>
    /\ errors = <<>>
    /\ warnings = <<>>
    /\ emitted = <<>>
    /\ file_counter = <<>>
    /\ zip_file = <<>>

\* 175-192: one call, on raw_name first and on the last result afterwards
Sanitize ==
    /\ pc = "sanitize"
    /\ Len(clean_names) < MaxCalls
    /\ clean_names' = Append(clean_names,
                             _sanitize_filename(IF clean_names = <<>> THEN raw_name
                                                ELSE clean_names[Len(clean_names)]))
    /\ UNCHANGED <<uploaded_files, i, pc, page_num, image_blocks, block_idx,
                   extracted_items, all_defects, analysed, errors, warnings, emitted,
                   packaging, raw_name>>

SanitizeNext == Sanitize

SanitizeSpec == SanitizeInit /\ [][SanitizeNext]_vars

----------------------------------------------------------------------------
(* What the claims speak of, stated without the operators of the source.   *)

\* the page whose image blocks are being processed
Blocks == CurPage.blocks

\* a text block that holds a character other than whitespace
HasText(block) ==
    /\ block.type = 0
    /\ "lines" \in DOMAIN block
    /\ \E l \in DOMAIN block.lines :
          /\ "spans" \in DOMAIN block.lines[l]
          /\ \E sp \in DOMAIN block.lines[l].spans :
                /\ "text" \in DOMAIN block.lines[l].spans[sp]
                /\ \E c \in DOMAIN block.lines[l].spans[sp].text :
                      block.lines[l].spans[sp].text[c] \notin WHITESPACE

\* the indices of the non-empty text blocks behind block index
TextAfter(blocks, index) ==
    {k \in (index + 1)..(Len(blocks) - 1) : HasText(At(blocks, k))}

\* the n-th smallest member of a set of numbers
Nth(S, n) == CHOOSE x \in S : Cardinality({y \in S : y <= x}) = n

\* the caption window of the candidate at index: the normalized texts of the
\* first six non-empty text blocks behind it (fewer when fewer follow)
Window(blocks, index) ==
    LET after == TextAfter(blocks, index)
        n     == IF Cardinality(after) < WindowSize THEN Cardinality(after) ELSE WindowSize
    IN  [k \in 1..n |-> _extract_text_from_block(At(blocks, Nth(after, k)))]

\* the indices of the image blocks of a page, topmost first, ties in stream order
ImageIndices(blocks) == {k \in 0..(Len(blocks) - 1) : At(blocks, k).type = 1}

Above(blocks, a, b) ==
    \/ At(blocks, a).bbox[2] < At(blocks, b).bbox[2]
    \/ At(blocks, a).bbox[2] = At(blocks, b).bbox[2] /\ a < b

VisualOrder(blocks) ==
    [k \in 1..Cardinality(ImageIndices(blocks)) |->
        CHOOSE b \in ImageIndices(blocks) :
            Cardinality({a \in ImageIndices(blocks) : Above(blocks, a, b)}) = k - 1]

AnalysedIndices == [k \in 1..Len(analysed) |-> analysed[k].index]

\* the items extracted from the page being processed
PageItems == {k \in 1..Len(extracted_items) : extracted_items[k].page = page_num + 1}

\* C2: on every page the image blocks are taken topmost first (ties in stream
\* order); the first of them is never analysed and yields no item, and every
\* other one is analysed exactly once, in that order
C2_SkipFirst ==
    pc = "blocks" =>
        /\ Len(image_blocks) = Len(VisualOrder(Blocks))
        /\ AnalysedIndices = SubSeq(VisualOrder(Blocks), 2, block_idx)
        /\ Cardinality(PageItems) = Cardinality({k \in 1..Len(analysed) : analysed[k].appended})

\* a page whose topmost image is not its first in the stream, with two
\* candidates analysed, one of them with an item
C2_Witness ==
    /\ pc = "blocks"
    /\ block_idx = Len(image_blocks)
    /\ Len(analysed) >= 2
    /\ VisualOrder(Blocks)[1] # SetMin(ImageIndices(Blocks))
    /\ \E k \in 1..Len(analysed) : analysed[k].appended

\* C3: a candidate with fewer than six non-empty text blocks behind it on its
\* page yields no result and no item; a scan ends with the sixth non-empty text
\* block or the end of the page
C3_ShortWindow ==
    pc = "blocks" =>
        \A k \in 1..Len(analysed) :
            /\ ScanTextBlocks(Blocks, analysed[k].index + 1, <<>>)
                   = Window(Blocks, analysed[k].index)
            /\ Cardinality(TextAfter(Blocks, analysed[k].index)) < WindowSize
                   => ~analysed[k].result.ok /\ ~analysed[k].appended

\* a candidate with five non-empty text blocks and a blank one behind it
C3_Witness ==
    /\ pc = "blocks"
    /\ \E k \in 1..Len(analysed) :
          /\ Cardinality(TextAfter(Blocks, analysed[k].index)) = WindowSize - 1
          /\ \E j \in (analysed[k].index + 1)..(Len(Blocks) - 1) :
                At(Blocks, j).type = 0 /\ ~HasText(At(Blocks, j))
          /\ ~analysed[k].appended

----------------------------------------------------------------------------
(* The caption grammar.                                                    *)

\* the caption window of the k-th analysed candidate of the page
W(k) == Window(Blocks, analysed[k].index)

\* the phrase, whatever its case, starts at position p of w
PhraseAt(w, p, phrase) ==
    /\ p >= 1
    /\ p + Len(phrase) - 1 <= Len(w)
    /\ \A j \in 1..Len(phrase) : lower_char(w[p + j - 1]) = phrase[j]

MarkerIn(w) == \E p \in 1..Len(w) : PhraseAt(w, p, s_defect_code)

DefectIn(w) == \E p \in 1..Len(w) : PhraseAt(w, p, s_defect)

\* whitespace followed by the word "defect" starts at position p of w
WsDefectAt(w, p) ==
    \E q \in (p + 1)..Len(w) :
        /\ \A j \in p..(q - 1) : w[j] \in WHITESPACE
        /\ PhraseAt(w, q, s_defect)

Occurrences(w) == {p \in 1..Len(w) : WsDefectAt(w, p)}

\* the text of w before the first occurrence of whitespace+"defect" (all of w
\* when there is none), and before the last start of one
BeforeFirst(w) ==
    IF Occurrences(w) = {} THEN w ELSE SubSeq(w, 1, SetMin(Occurrences(w)) - 1)

BeforeLast(w) == SubSeq(w, 1, SetMax(Occurrences(w)) - 1)

\* the digits that follow the first marker of w, separated from it by nothing
\* but ':', '=' and whitespace
DigitsAfterMarker(w) ==
    LET p == SetMin({x \in 1..Len(w) : PhraseAt(w, x, s_defect_code)})
        q == RunEnd(w, p + Len(s_defect_code), WHITESPACE \cup {":", "="})
    IN  SubSeq(w, q, RunEnd(w, q, DIGITS) - 1)

t_Loose_Bolt == <<"L", "o", "o", "s", "e", " ", "B", "o", "l", "t">>

t_Surface_Scratch ==
    <<"S", "u", "r", "f", "a", "c", "e", " ", "S", "c", "r", "a", "t", "c", "h">>

\* C4: a six-element window whose fifth element does not contain "defect code"
\* (in any case) is rejected and yields no item, whatever its other elements
C4_MarkerRejection ==
    pc = "blocks" =>
        \A k \in 1..Len(analysed) :
            Len(W(k)) = WindowSize /\ ~MarkerIn(W(k)[5])
                => ~analysed[k].result.ok /\ ~analysed[k].appended

\* a rejected window without the marker in its fifth element whose fourth
\* element has marker and code and whose sixth element has a reason
C4_Witness ==
    /\ pc = "blocks"
    /\ \E k \in 1..Len(analysed) :
          /\ Len(W(k)) = WindowSize
          /\ ~MarkerIn(W(k)[5])
          /\ W(k)[4] = t_both
          /\ W(k)[6] = t_w5
          /\ ~analysed[k].appended

\* C5: when the fifth element contains the marker, the code is the first run
\* of digits behind the marker, from which ':' , '=' and whitespace may
\* separate it ("Defect Code: 107" with "Loose Bolt Defect Found" gives 107 and
\* Loose Bolt); the window is rejected only when there are no digits
C5_DefectCode ==
    pc = "blocks" =>
        \A k \in 1..Len(analysed) :
            (/\ Len(W(k)) = WindowSize
             /\ MarkerIn(W(k)[5])
             /\ W(k)[6] = t_w5
             /\ DigitsAfterMarker(W(k)[5]) # <<>>)
                => /\ analysed[k].result.ok
                   /\ analysed[k].result.defect_code = DigitsAfterMarker(W(k)[5])
                   /\ analysed[k].result.reason = t_Loose_Bolt

\* C6 as stated: the reason is the longest leading part of the sixth element
\* that whitespace and "defect" follow, trimmed
C6_LongestLeading ==
    pc = "blocks" =>
        \A k \in 1..Len(analysed) : \A w \in {W(k)} :
            (/\ Len(w) = WindowSize
             /\ code_match(w[5]).matched
             /\ Occurrences(w[6]) # {}
             /\ strip(BeforeLast(w[6])) # <<>>)
                => /\ analysed[k].result.ok
                   /\ analysed[k].result.reason = strip(BeforeLast(w[6]))

\* C6, amended: the reason is the shortest leading part of the sixth element
\* that whitespace and "defect" follow (the text before the first occurrence),
\* trimmed; when that is empty the window is rejected
C6_ShortestLeading ==
    pc = "blocks" =>
        \A k \in 1..Len(analysed) : \A w \in {W(k)} :
            (/\ Len(w) = WindowSize
             /\ code_match(w[5]).matched
             /\ Occurrences(w[6]) # {})
                => IF strip(BeforeFirst(w[6])) # <<>>
                   THEN /\ analysed[k].result.ok
                        /\ analysed[k].result.reason = strip(BeforeFirst(w[6]))
                   ELSE ~analysed[k].result.ok

\* a sixth element in which whitespace+"defect" occurs twice, with the reason
\* cut at the first occurrence
C6_Witness ==
    /\ pc = "blocks"
    /\ \E k \in 1..Len(analysed) :
          /\ Len(W(k)) = WindowSize
          /\ analysed[k].result.ok
          /\ Cardinality(Occurrences(W(k)[6])) >= 2
          /\ strip(BeforeLast(W(k)[6])) # strip(BeforeFirst(W(k)[6]))
          /\ analysed[k].result.reason = strip(BeforeFirst(W(k)[6]))

\* C7: a result has a sixth element that contains "defect" (in any case) and
\* its reason is the trimmed text before the first whitespace+"defect"
\* ("Surface Scratch defect noted on panel" gives "Surface Scratch"); the
\* window is rejected when that text is empty and when "defect" does not
\* appear in the sixth element; no item has an empty reason
C7_FallbackReason ==
    /\ \A n \in 1..Len(extracted_items) : extracted_items[n].reason # <<>>
    /\ pc = "blocks" =>
          \A k \in 1..Len(analysed) : \A w \in {W(k)} :
              /\ analysed[k].result.ok
                    => /\ DefectIn(w[6])
                       /\ analysed[k].result.reason = strip(BeforeFirst(w[6]))
                       /\ analysed[k].result.reason # <<>>
              /\ (/\ Len(w) = WindowSize
                  /\ code_match(w[5]).matched
                  /\ DefectIn(w[6])
                  /\ strip(BeforeFirst(w[6])) # <<>>)
                    => analysed[k].result.ok
              /\ (Len(w) = WindowSize /\ w[6] = t_w5b /\ analysed[k].result.ok)
                    => analysed[k].result.reason = t_Surface_Scratch

\* the example is extracted, and a window with code and without "defect" in its
\* sixth element was rejected
C7_Witness ==
    /\ pc = "blocks"
    /\ \E k \in 1..Len(analysed) :
          /\ Len(W(k)) = WindowSize
          /\ W(k)[6] = t_w5b
          /\ analysed[k].appended
          /\ extracted_items[Len(extracted_items)].reason = t_Surface_Scratch

----------------------------------------------------------------------------
(* The rendered image of a candidate.                                      *)

\* the images of the list that have a placement rectangle
Placed(image_list) == {j \in 0..(Len(image_list) - 1) : At(image_list, j).rects # <<>>}

\* twice the centre of a rectangle
Centre2(rect) == <<rect[1] + rect[3], rect[2] + rect[4]>>

\* 4 times the squared distance of the centre of bbox to the centre of the
\* first placement rectangle of image j
CentreDistance(bbox, image_list, j) ==
    LET a == Centre2(bbox)
        b == Centre2(At(image_list, j).rects[1])
    IN  (a[1] - b[1]) * (a[1] - b[1]) + (a[2] - b[2]) * (a[2] - b[2])

\* the first of the placed images nearest to bbox
Nearest(bbox, image_list) ==
    CHOOSE j \in Placed(image_list) :
        \A o \in Placed(image_list) :
            \/ CentreDistance(bbox, image_list, j) < CentreDistance(bbox, image_list, o)
            \/ CentreDistance(bbox, image_list, j) = CentreDistance(bbox, image_list, o)
               /\ j <= o

CandidateBbox(k) == At(Blocks, analysed[k].index).bbox

\* C8: _find_matching_image returns the image whose placement centre is nearest
\* to the centre of the candidate, the first in the list among the nearest; it
\* returns none when no image of the list has a placement rectangle, and the
\* candidate then yields no item
C8_NearestCentroid ==
    pc = "blocks" =>
        \A k \in 1..Len(analysed) :
            analysed[k].result.ok =>
                IF Placed(CurPage.image_list) = {}
                THEN ~analysed[k].matched.found /\ ~analysed[k].appended
                ELSE /\ analysed[k].matched.found
                     /\ analysed[k].matched.idx = Nearest(CandidateBbox(k), CurPage.image_list)

\* a candidate with two images at the same distance, not at its own centre,
\* matched to the first of them
C8_Witness ==
    /\ pc = "blocks"
    /\ \E k \in 1..Len(analysed) :
          /\ analysed[k].appended
          /\ CentreDistance(CandidateBbox(k), CurPage.image_list, analysed[k].matched.idx) > 0
          /\ \E o \in Placed(CurPage.image_list) :
                /\ o > analysed[k].matched.idx
                /\ CentreDistance(CandidateBbox(k), CurPage.image_list, o)
                      = CentreDistance(CandidateBbox(k), CurPage.image_list,
                                       analysed[k].matched.idx)

\* C9: no two items of a page are built from the same rendered image
C9_ClaimedAssets ==
    \A a, b \in 1..Len(extracted_items) :
        a < b /\ extracted_items[a].page = extracted_items[b].page
            => extracted_items[a].image_data # extracted_items[b].image_data

\* C10: the clean_reason of an item holds no illegal character and no two
\* underscores in a row, and is at most 100 characters long
C10_PathSafeKey ==
    \A n \in 1..Len(extracted_items) :
        LET key == extracted_items[n].clean_reason
        IN  /\ \A c \in DOMAIN key : \A j \in DOMAIN illegal_chars : key[c] # illegal_chars[j]
            /\ \A c \in 1..(Len(key) - 1) : ~(key[c] = "_" /\ key[c + 1] = "_")
            /\ Len(key) <= MaxNameLen

\* C1: a candidate yields an item exactly when its window has six elements,
\* the fifth holds the marker and digits behind it, a reason can be read from
\* the sixth, and a rendered image can be associated with it and extracted
C1_RecordIff ==
    pc = "blocks" =>
        \A k \in 1..Len(analysed) :
            analysed[k].appended <=>
                /\ Len(W(k)) = WindowSize
                /\ MarkerIn(W(k)[5])
                /\ DigitsAfterMarker(W(k)[5]) # <<>>
                /\ DefectIn(W(k)[6])
                /\ strip(BeforeFirst(W(k)[6])) # <<>>
                /\ Placed(CurPage.image_list) # {}
                /\ At(CurPage.image_list, Nearest(CandidateBbox(k), CurPage.image_list)).xref
                      \notin CurDoc.broken

----------------------------------------------------------------------------
(* The sanitizer.                                                          *)

\* C11: _sanitize_filename applied to its own result returns that result,
\* for every string it is first applied to
C11_Idempotent ==
    \A k \in 2..Len(clean_names) : clean_names[k] = clean_names[1]

\* the idempotence on the strings that hold a character other than a space
C11_IdempotentNonBlank ==
    (\E c \in DOMAIN raw_name : raw_name[c] # " ")
        => \A k \in 2..Len(clean_names) : clean_names[k] = clean_names[1]

\* a string of underscores only
AllUnderscores(key) == key # <<>> /\ \A c \in DOMAIN key : key[c] = "_"

\* a reason made of illegal characters and underscores only
OnlyIllegal(reason) ==
    \A c \in DOMAIN reason :
        reason[c] = "_" \/ \E j \in DOMAIN illegal_chars : reason[c] = illegal_chars[j]

t_defect_ == <<"d", "e", "f", "e", "c", "t", "_">>

\* C12: the clean_reason of an item is neither empty nor made of underscores
\* only, and it is "defect_<code>" whenever the reason is made of illegal
\* characters and underscores only or sanitizes to such a string
C12_SanitizeFallback ==
    \A n \in 1..Len(extracted_items) :
        LET item == extracted_items[n]
        IN  /\ item.clean_reason # <<>>
            /\ ~AllUnderscores(item.clean_reason)
            /\ (\/ OnlyIllegal(item.reason)
                \/ _sanitize_filename(item.reason) = <<>>
                \/ AllUnderscores(_sanitize_filename(item.reason)))
                  => item.clean_reason = t_defect_ \o item.defect_code

\* an item with the reason "///" and the key "defect_7"
C12_Witness ==
    \E n \in 1..Len(extracted_items) :
        /\ extracted_items[n].reason = <<"/", "/", "/">>
        /\ extracted_items[n].defect_code = <<"7">>
        /\ extracted_items[n].clean_reason = <<"d", "e", "f", "e", "c", "t", "_", "7">>

----------------------------------------------------------------------------
(* The collection handed to the caller.                                    *)

\* the records collected so far: those of the documents done, and those of
\* the document being processed
Collected ==
    IF pc \in {"pages", "blocks", "return"} THEN all_defects \o extracted_items
    ELSE all_defects

\* (document position, page, position in the visual order) of a is not
\* greater than that of b
LexLeq(a, b) ==
    \/ a[1] < b[1]
    \/ a[1] = b[1] /\ a[2] < b[2]
    \/ a[1] = b[1] /\ a[2] = b[2] /\ a[3] <= b[3]

\* the record is the one of the candidate at position c of the visual order
\* of page p of document d
RecordOf(record, d, p, c) ==
    LET doc  == At(uploaded_files, d)
        page == At(doc.pages, p)
        bbox == At(page.blocks, VisualOrder(page.blocks)[c + 1]).bbox
    IN  /\ record.pdf_name = doc.name
        /\ record.page = p + 1
        /\ record.image_data
              = ExtractImage(doc, At(page.image_list, Nearest(bbox, page.image_list)).xref).image

\* C13: the k-th record collected is the record of the k-th candidate an item
\* was appended for, and the (document, page, candidate) positions of the
\* records collected never decrease
C13_EmissionOrder ==
    /\ Len(Collected) = Len(emitted)
    /\ \A k \in 1..Len(emitted) :
          RecordOf(Collected[k], emitted[k][1], emitted[k][2], emitted[k][3])
    /\ \A a, b \in 1..Len(emitted) : a < b => LexLeq(emitted[a], emitted[b])

\* a batch processed whose records come from two documents, from two pages
\* of one document and from two candidates of one page
C13_Witness ==
    /\ pc = "done"
    /\ \E a, b, c, d \in 1..Len(all_defects) :
          /\ a < b /\ b < c /\ c < d
          /\ all_defects[a].pdf_name # all_defects[b].pdf_name
          /\ emitted[b][1] = emitted[c][1] /\ emitted[b][2] = emitted[c][2]
          /\ all_defects[b].image_data # all_defects[c].image_data
          /\ emitted[c][1] = emitted[d][1] /\ all_defects[c].page < all_defects[d].page

----------------------------------------------------------------------------
(* Failures.                                                               *)

\* a document that cannot be opened, or one of whose pages cannot be read
Failing(doc) == ~doc.opens \/ \E p \in DOMAIN doc.pages : ~doc.pages[p].readable

\* the names of the failing documents among the first n, in their order
FailedNames(n) ==
    LET failed == SelectSeq(SubSeq(uploaded_files, 1, n), Failing)
    IN  [k \in 1..Len(failed) |-> failed[k].name]

\* the candidate at position c of the visual order of the page has a caption
\* and an image that can be extracted
Yields(doc, page, c) ==
    LET index == VisualOrder(page.blocks)[c + 1]
        w     == Window(page.blocks, index)
    IN  /\ Len(w) = WindowSize
        /\ MarkerIn(w[5])
        /\ DigitsAfterMarker(w[5]) # <<>>
        /\ DefectIn(w[6])
        /\ strip(BeforeFirst(w[6])) # <<>>
        /\ Placed(page.image_list) # {}
        /\ At(page.image_list,
              Nearest(At(page.blocks, index).bbox, page.image_list)).xref \notin doc.broken

\* the (page, candidate) positions of document d that yield a record
FullRecords(d) ==
    LET doc == At(uploaded_files, d)
    IN  UNION {{<<p, c>> : c \in {n \in 1..(Cardinality(ImageIndices(At(doc.pages, p).blocks)) - 1) :
                                      Yields(doc, At(doc.pages, p), n)}} :
               p \in 0..(Len(doc.pages) - 1)}

\* the (page, candidate) positions of the records returned for document d
Returned(d) ==
    {<<emitted[k][2], emitted[k][3]>> : k \in {j \in 1..Len(emitted) : emitted[j][1] = d}}

\* C14: in a batch with a failing document every document is processed, the
\* records of each document that does not fail are returned in full, and an
\* error is reported for each failing document and for no other
C14_FailureIsolation ==
    (\E d \in DOMAIN uploaded_files : Failing(uploaded_files[d])) /\ pc \in {"main", "done"}
        => /\ pc = "done" => i = Len(uploaded_files)
           /\ Len(all_defects) = Len(emitted)
           /\ \A d \in 0..(i - 1) :
                 ~Failing(At(uploaded_files, d)) => Returned(d) = FullRecords(d)
           /\ [k \in 1..Len(errors) |-> errors[k].name] = FailedNames(i)

\* three documents processed: the second does not open, the first and the
\* third have their records returned, one error is reported
C14_Witness ==
    /\ pc = "done"
    /\ Len(uploaded_files) = 3
    /\ ~uploaded_files[2].opens
    /\ ~Failing(uploaded_files[1]) /\ FullRecords(0) # {} /\ Returned(0) = FullRecords(0)
    /\ ~Failing(uploaded_files[3]) /\ FullRecords(2) # {} /\ Returned(2) = FullRecords(2)
    /\ Len(errors) = 1 /\ errors[1].name = uploaded_files[2].name

\* the candidate at position c of the visual order of the page is rejected:
\* its window is short, its caption does not have the form that
\* _analyze_text_blocks reads a code and a reason from, no image of the page
\* is placed, or the image nearest to it cannot be extracted
Rejected(doc, page, c) ==
    LET index == VisualOrder(page.blocks)[c + 1]
        w     == Window(page.blocks, index)
    IN  \/ Len(w) < WindowSize
        \/ ~MarkerIn(w[5])
        \/ ~code_match(w[5]).matched
        \/ ~DefectIn(w[6])
        \/ strip(BeforeFirst(w[6])) = <<>>
        \/ Placed(page.image_list) = {}
        \/ At(page.image_list,
              Nearest(At(page.blocks, index).bbox, page.image_list)).xref \in doc.broken

\* the candidate at block_idx is about to be processed and is rejected
RejectedNext ==
    /\ pc = "blocks"
    /\ 0 < block_idx /\ block_idx < Len(image_blocks)
    /\ Rejected(CurDoc, CurPage, block_idx)

\* a rejected candidate adds no record, changes none, and leaves the loop at
\* the next candidate of the page
RejectedStep ==
    RejectedNext =>
        /\ extracted_items' = extracted_items
        /\ all_defects' = all_defects
        /\ pc' = "blocks"
        /\ block_idx' = block_idx + 1
        /\ page_num' = page_num
        /\ i' = i

\* when a page is left every candidate of it has been analysed, and when a
\* document without unreadable page is left every page of it has been
AllProcessed ==
    /\ pc = "pages" /\ page_num > 0
          => LET n == Cardinality(ImageIndices(At(CurDoc.pages, page_num - 1).blocks))
             IN  Len(analysed) = IF n = 0 THEN 0 ELSE n - 1
    /\ pc = "return" /\ ~Failing(CurDoc) => page_num = Len(CurDoc.pages)

\* C15: a rejected candidate yields no record and leaves the records
\* collected as they are, and the candidates and pages behind it are still
\* processed
C15_NegativeMatches == [][RejectedStep]_vars /\ []AllProcessed

\* on one page, a candidate whose image could not be extracted, and a later
\* candidate that has its record
C15_Witness ==
    /\ pc = "blocks"
    /\ warnings # <<>>
    /\ \E k, l \in 1..Len(analysed) :
          /\ k < l
          /\ analysed[k].matched.found /\ ~analysed[k].appended
          /\ analysed[l].appended

----------------------------------------------------------------------------
(* The ZIP file.                                                           *)

\* C16: no two entries of the ZIP file have the same path
C16_UniquePaths ==
    \A a, b \in 1..Len(zip_file) : a < b => zip_file[a].zip_path # zip_file[b].zip_path

\* a key that ends in "_" and digits
EndsInSuffix(key) ==
    \E p \in 1..(Len(key) - 1) :
        key[p] = "_" /\ \A c \in (p + 1)..Len(key) : key[c] \in DIGITS

\* the paths are distinct when no clean_reason ends in "_" and digits
C16_UniquePathsPlainKeys ==
    (\A n \in 1..Len(all_defects) : ~EndsInSuffix(all_defects[n].clean_reason))
        => C16_UniquePaths

====
